---- MODULE Spec2Model ----
(***************************************************************************)
(* LangChainYandexGPT (src/index.mjs).                                     *)
(*                                                                         *)
(* Two state machines are modelled:                                        *)
(*   - parseChatHistory: the for-of loop over the history, one step per    *)
(*     message, followed by the end-of-pass mismatch check (SpecParse);    *)
(*   - checkStatus: the self-rescheduling status poll, with the fetch, the *)
(*     timer and the AbortSignal as the environment (SpecPoll).            *)
(***************************************************************************)
EXTENDS Integers, Sequences, FiniteSets, TLC

\* ------------------------------------------------------------------ bounds
\* Longest history handed to parseChatHistory.
MaxLen == 3
\* Longest array content (number of parts) of a human / system message.
MaxParts == 2
\* Largest number of tool calls carried by one ai message.
MaxCalls == 2
\* Largest number of checkStatus invocations of one poll.
MaxChecks == 4
\* Longest history where several passes, or a whole _generate, are explored.
MaxShortLen == 2

\* ------------------------------------------------------- program constants
TIMEOUT == 2000

NonStringError == "ChatYandexGPT does not support non-string message content."
MismatchError == "Mismatch between requested tool calls and returned tool results in chat history."

\* JavaScript's undefined, for a property that is read but not present.
Undefined == "undefined"

VARIABLES
    \* parseChatHistory
    history,                 \* the argument
    idx,                     \* number of messages the for-of loop has consumed
    chatHistory,             \* const chatHistory = []
    pendingToolResults,      \* let pendingToolResults = []
    awaitingToolCallsCount,  \* let awaitingToolCallsCount = 0
    pc,                      \* "idle" | "loop" | "returned" | "threw"
    error,                   \* message of the Error thrown, "" if none
    \* checkStatus
    hasSignal,               \* options?.signal is an AbortSignal
    aborted,                 \* signal.aborted
    pollPc,                  \* "idle" | "fetching" | "waiting" | "resolved" | "rejected"
    calls,                   \* number of checkStatus invocations (promises created)
    requests,                \* number of GET requests actually sent
    responses,               \* the status source's answers, in order
    timersSet,               \* number of setTimeout calls
    timersFired,             \* number of timer callbacks run
    timerDelay,              \* delay of the pending timer, 0 if none is pending
    unsettled,               \* promises of the chain that are not settled yet
    resolvedWith,            \* <<value>> once the caller's promise is fulfilled
    rejectedWith,            \* name of the rejection reason, "" if none
    \* successive calls of parseChatHistory
    plan,                    \* the histories of the calls, in call order
    pass,                    \* number of the call under way, 0 if calls are not tracked
    firstOutcome,            \* what the first call returned or threw
    \* _generate
    genPc,                   \* "idle" | "translating" | "requesting" | "fulfilled" | "rejected"
    completionRequests,      \* number of POSTs sent to the completion endpoint
    genError,                \* reason _generate rejected with, "" if none
    generations,             \* kinds of the generations returned
    finishReason             \* llmOutput.finish_reason, "" while nothing is returned

parseVars == <<history, idx, chatHistory, pendingToolResults,
               awaitingToolCallsCount, pc, error>>
pollVars == <<hasSignal, aborted, pollPc, calls, requests, responses,
              timersSet, timersFired, timerDelay, unsettled, resolvedWith,
              rejectedWith>>
repeatVars == <<plan, pass, firstOutcome>>
genVars == <<genPc, completionRequests, genError, generations, finishReason>>
vars == <<history, idx, chatHistory, pendingToolResults,
          awaitingToolCallsCount, pc, error,
          hasSignal, aborted, pollPc, calls, requests, responses,
          timersSet, timersFired, timerDelay, unsettled, resolvedWith,
          rejectedWith,
          plan, pass, firstOutcome,
          genPc, completionRequests, genError, generations, finishReason>>

\* ---------------------------------------------------------------- messages
\* Distinct texts and identifiers, so that order is observable.
Texts == <<"a", "b", "c", "d">>
Idents == <<"f1", "f2", "f3", "f4">>

\* message.content: a string, an array of parts, or anything else.
Str(s) == [kind |-> "string", text |-> s, parts |-> <<>>]
Arr(ps) == [kind |-> "array", text |-> "", parts |-> ps]
Obj == [kind |-> "object", text |-> "", parts |-> <<>>]

\* n text parts {type: 'text', text: ...} with distinct texts.
TextParts(n) == [i \in 1..n |-> [type |-> "text", text |-> Texts[i]]]

\* k tool calls {name, args} with distinct names.
Calls(k) == [i \in 1..k |-> [name |-> Idents[i], args |-> Texts[i]]]

\* tool_calls = <<>> stands for both an empty and an absent tool_calls
\* (message.tool_calls?.length is falsy for both).
Msg(type, content, toolCalls, kwName, name) ==
    [type |-> type, hasContent |-> TRUE, content |-> content,
     tool_calls |-> toolCalls, kwname |-> kwName, name |-> name]

TextContents == {Str("a")} \cup {Arr(TextParts(n)) : n \in 0..MaxParts}

HumanMessages == {Msg("human", c, <<>>, Undefined, Undefined) :
                     c \in TextContents \cup {Obj}}
SystemMessages == {Msg("system", c, <<>>, Undefined, Undefined) :
                     c \in TextContents \cup {Obj}}
AiMessages == {Msg("ai", c, Calls(k), Undefined, Undefined) :
                     c \in {Str("a"), Obj}, k \in 0..MaxCalls}
ToolMessages == {Msg("tool", Str("r1"), <<>>, "f1", "x"),
                 Msg("tool", Str("r2"), <<>>, Undefined, "f2"),
                 Msg("tool", Arr(TextParts(1)), <<>>, "f1", Undefined)}
\* A role the switch does not know, and an object without a content property.
OtherMessages == {Msg("function", Str("a"), <<>>, Undefined, "f1"),
                  [Msg("tool", Obj, <<>>, "f1", Undefined) EXCEPT !.hasContent = FALSE]}

Messages == HumanMessages \cup SystemMessages \cup AiMessages
              \cup ToolMessages \cup OtherMessages

Histories == UNION {[1..n -> Messages] : n \in 0..MaxLen}

\* ------------------------------------------------------------ wire entries
\* A wire entry is a record whose DOMAIN holds the keys the object has.
TextEntry(role, text) == [role |-> role, text |-> text]

\* src/index.mjs:70-79
ToolCallList(toolCalls) ==
    [toolCalls |-> [i \in 1..Len(toolCalls) |->
        [functionCall |-> [name |-> toolCalls[i].name,
                           arguments |-> toolCalls[i].args]]]]

\* A faulty variant of ToolResultList: only the last result of the batch.
ToolResultListLastOnly(results) ==
    [toolResults |-> <<[functionResult |->
                          [name |-> results[Len(results)].name,
                           content |-> results[Len(results)].content]]>>]

\* src/index.mjs:51-58
ToolResultList(results) ==
    [toolResults |-> [i \in 1..Len(results) |->
        [functionResult |-> [name |-> results[i].name,
                             content |-> results[i].content]]]]

\* message.additional_kwargs.name ?? message.name
ToolName(message) ==
    IF message.kwname # Undefined THEN message.kwname ELSE message.name

\* A faulty variant of ContentEntries: an array content yields one entry, for
\* its first part only.
ContentEntriesFirstPartOnly(role, content) ==
    IF content.kind = "string"
    THEN <<TextEntry(role, content.text)>>
    ELSE IF Len(content.parts) = 0
         THEN <<>>
         ELSE <<TextEntry(role, content.parts[1].text)>>

\* The entries a human / system message pushes (content is a string or an array).
ContentEntries(role, content) ==
    IF content.kind = "string"
    THEN <<TextEntry(role, content.text)>>
    ELSE [i \in 1..Len(content.parts) |-> TextEntry(role, content.parts[i].text)]

\* A faulty variant of ShouldFlush: every tool result is flushed on its own,
\* one toolResultList entry per tool message.
ShouldFlushEach(awaiting, pending) ==
    Len(pending) >= 1

\* The flush condition of case 'tool'.
ShouldFlush(awaiting, pending) ==
    awaiting > 0 /\ Len(pending) = awaiting

\* The entry an ai message pushes.
AiEntry(message) ==
    IF Len(message.tool_calls) > 0
    THEN [role |-> "assistant", toolCallList |-> ToolCallList(message.tool_calls)]
    ELSE IF message.content.kind = "string"
         THEN [role |-> "assistant", text |-> message.content.text]
         ELSE [role |-> "assistant"]

\* ------------------------------------------------------- parseChatHistory
\* checkStatus has not been invoked.
PollNotCalled ==
    /\ aborted = FALSE /\ pollPc = "idle"
    /\ calls = 0 /\ requests = 0 /\ responses = <<>>
    /\ timersSet = 0 /\ timersFired = 0 /\ timerDelay = 0
    /\ unsettled = 0 /\ resolvedWith = <<>> /\ rejectedWith = ""

PollIdle == hasSignal = FALSE /\ PollNotCalled

\* What a call of parseChatHistory gives its caller: the array returned, or
\* the error thrown.
NoOutcome == [pc |-> "", error |-> "", output |-> <<>>]

\* Successive calls are not tracked.
RepeatIdle == plan = <<>> /\ pass = 0 /\ firstOutcome = NoOutcome

\* _generate is not in use.
GenerateIdle ==
    /\ genPc = "idle" /\ completionRequests = 0 /\ genError = ""
    /\ generations = <<>> /\ finishReason = ""

InitParse ==
    /\ history \in Histories
    /\ idx = 0
    /\ chatHistory = <<>>
    /\ pendingToolResults = <<>>
    /\ awaitingToolCallsCount = 0
    /\ pc = "loop"
    /\ error = ""
    /\ PollIdle
    /\ RepeatIdle
    /\ GenerateIdle

InLoop == pc = "loop" /\ idx < Len(history)

Throw(msg) ==
    /\ pc' = "threw"
    /\ error' = msg
    /\ UNCHANGED <<history, idx, chatHistory, pendingToolResults,
                   awaitingToolCallsCount>>

\* if ('content' in message) is false: the message is passed over.
ParseNoContent ==
    /\ InLoop
    /\ ~history[idx + 1].hasContent
    /\ idx' = idx + 1
    /\ UNCHANGED <<history, chatHistory, pendingToolResults,
                   awaitingToolCallsCount, pc, error>>

ParseHuman ==
    /\ InLoop
    /\ LET message == history[idx + 1] IN
        /\ message.hasContent
        /\ message.type = "human"
        /\ IF message.content.kind \in {"string", "array"}
           THEN /\ chatHistory' = chatHistory \o ContentEntries("user", message.content)
                /\ idx' = idx + 1
                /\ UNCHANGED <<history, pendingToolResults,
                               awaitingToolCallsCount, pc, error>>
           ELSE Throw(NonStringError)

ParseTool ==
    /\ InLoop
    /\ LET message == history[idx + 1] IN
        /\ message.hasContent
        /\ message.type = "tool"
        /\ IF message.content.kind = "string"
           THEN LET pushed == Append(pendingToolResults,
                                     [name |-> ToolName(message),
                                      content |-> message.content.text])
                IN  /\ IF ShouldFlush(awaitingToolCallsCount, pushed)
                       THEN /\ chatHistory' = Append(chatHistory,
                                   [role |-> "assistant",
                                    toolResultList |-> ToolResultList(pushed)])
                            /\ pendingToolResults' = <<>>
                            /\ awaitingToolCallsCount' = 0
                       ELSE /\ pendingToolResults' = pushed
                            /\ UNCHANGED <<chatHistory, awaitingToolCallsCount>>
                    /\ idx' = idx + 1
                    /\ UNCHANGED <<history, pc, error>>
           ELSE Throw(NonStringError)

ParseAi ==
    /\ InLoop
    /\ LET message == history[idx + 1] IN
        /\ message.hasContent
        /\ message.type = "ai"
        /\ chatHistory' = Append(chatHistory, AiEntry(message))
        /\ awaitingToolCallsCount' =
              IF Len(message.tool_calls) > 0
              THEN Len(message.tool_calls)
              ELSE awaitingToolCallsCount
        /\ idx' = idx + 1
        /\ UNCHANGED <<history, pendingToolResults, pc, error>>

ParseSystem ==
    /\ InLoop
    /\ LET message == history[idx + 1] IN
        /\ message.hasContent
        /\ message.type = "system"
        /\ IF message.content.kind \in {"string", "array"}
           THEN /\ chatHistory' = chatHistory \o ContentEntries("system", message.content)
                /\ idx' = idx + 1
                /\ UNCHANGED <<history, pendingToolResults,
                               awaitingToolCallsCount, pc, error>>
           ELSE Throw(NonStringError)

\* A faulty variant of ParseDefault: an unknown role is an error.
ParseDefaultThrows ==
    /\ InLoop
    /\ LET message == history[idx + 1] IN
        /\ message.hasContent
        /\ message.type \notin {"human", "tool", "ai", "system"}
        /\ Throw("Unknown role")

\* default: console.warn and break.
ParseDefault ==
    /\ InLoop
    /\ LET message == history[idx + 1] IN
        /\ message.hasContent
        /\ message.type \notin {"human", "tool", "ai", "system"}
        /\ idx' = idx + 1
        /\ UNCHANGED <<history, chatHistory, pendingToolResults,
                       awaitingToolCallsCount, pc, error>>

\* After the loop: the mismatch check, then return chatHistory.
EndOfPass ==
    /\ pc = "loop"
    /\ idx = Len(history)
    /\ IF Len(pendingToolResults) > 0 \/ awaitingToolCallsCount > 0
       THEN Throw(MismatchError)
       ELSE /\ pc' = "returned"
            /\ UNCHANGED <<history, idx, chatHistory, pendingToolResults,
                           awaitingToolCallsCount, error>>

NextParse ==
    \/ ParseNoContent /\ UNCHANGED <<pollVars, repeatVars, genVars>>
    \/ ParseHuman /\ UNCHANGED <<pollVars, repeatVars, genVars>>
    \/ ParseTool /\ UNCHANGED <<pollVars, repeatVars, genVars>>
    \/ ParseAi /\ UNCHANGED <<pollVars, repeatVars, genVars>>
    \/ ParseSystem /\ UNCHANGED <<pollVars, repeatVars, genVars>>
    \/ ParseDefault /\ UNCHANGED <<pollVars, repeatVars, genVars>>
    \/ EndOfPass /\ UNCHANGED <<pollVars, repeatVars, genVars>>

SpecParse == InitParse /\ [][NextParse]_vars

\* ============================================================ checkStatus
AbortError == "AbortError"
NetworkError == "TypeError"
SyntaxError == "SyntaxError"

\* What the operations endpoint answers: the HTTP status is a success or not,
\* the body parses as JSON or not, the parsed body's done field is truthy or
\* not; body tells the answers apart.
StatusResponses ==
    {r \in [ok : BOOLEAN, parsable : BOOLEAN, done : BOOLEAN, body : {"x", "y"}] :
        ~r.parsable => (~r.done /\ r.body = "x")}

\* parseChatHistory is not in use.
ParseIdle ==
    /\ history = <<>> /\ idx = 0 /\ chatHistory = <<>>
    /\ pendingToolResults = <<>> /\ awaitingToolCallsCount = 0
    /\ pc = "idle" /\ error = ""

InitPoll ==
    /\ hasSignal \in BOOLEAN
    /\ PollNotCalled
    /\ ParseIdle
    /\ RepeatIdle
    /\ GenerateIdle

\* A faulty variant of SignalAborted: the signal is not handed to fetch.
SignalNotPassed == FALSE

\* fetch(..., {signal: options?.signal}) observes an aborted signal.
SignalAborted == hasSignal /\ aborted

\* A faulty variant of IsDone: the result itself is tested, not its done field.
IsDoneAnyResult(result) == TRUE

\* if (result.done)
IsDone(result) == result.done

\* reject(error): the rejection passes through every .then(resolve).catch(reject)
\* of the chain in microtasks, before any other task runs.
Reject(reason) ==
    /\ pollPc' = "rejected"
    /\ rejectedWith' = reason
    /\ unsettled' = 0
    /\ UNCHANGED resolvedWith

\* A faulty variant of Resolve: the caller gets the first answer of the poll,
\* a stale handle, instead of the terminal one.
ResolveStale(result) ==
    /\ pollPc' = "resolved"
    /\ resolvedWith' = <<IF responses = <<>> THEN result ELSE responses[1]>>
    /\ unsettled' = 0
    /\ UNCHANGED rejectedWith

\* resolve(result), passed up the chain likewise.
Resolve(result) ==
    /\ pollPc' = "resolved"
    /\ resolvedWith' = <<result>>
    /\ unsettled' = 0
    /\ UNCHANGED rejectedWith

\* One invocation of checkStatus up to its first suspension: a promise is
\* created and fetch is called; with an aborted signal fetch sends nothing and
\* rejects.
Invoke ==
    /\ calls' = calls + 1
    /\ IF SignalAborted
       THEN /\ Reject(AbortError)
            /\ UNCHANGED requests
       ELSE /\ requests' = requests + 1
            /\ pollPc' = "fetching"
            /\ unsettled' = unsettled + 1
            /\ UNCHANGED <<resolvedWith, rejectedWith>>

\* The caller invokes checkStatus(id, options).
CheckStatus ==
    /\ pollPc = "idle"
    /\ Invoke
    /\ UNCHANGED <<hasSignal, aborted, responses, timersSet, timersFired,
                   timerDelay>>

\* The response arrives and its body is read (await fetch, await
\* response.json()); response.ok is not looked at.
FetchRespond ==
    /\ pollPc = "fetching"
    /\ ~SignalAborted
    /\ \E r \in StatusResponses :
        /\ responses' = Append(responses, r)
        /\ IF ~r.parsable
           THEN /\ Reject(SyntaxError)
                /\ UNCHANGED <<timersSet, timerDelay>>
           ELSE IF IsDone(r)
           THEN /\ Resolve(r)
                /\ UNCHANGED <<timersSet, timerDelay>>
           ELSE /\ timersSet' = timersSet + 1
                /\ timerDelay' = TIMEOUT
                /\ pollPc' = "waiting"
                /\ UNCHANGED <<unsettled, resolvedWith, rejectedWith>>
    /\ UNCHANGED <<hasSignal, aborted, calls, requests, timersFired>>

\* The request fails in the network: fetch rejects, the catch block rejects.
FetchFail ==
    /\ pollPc = "fetching"
    /\ ~SignalAborted
    /\ Reject(NetworkError)
    /\ UNCHANGED <<hasSignal, aborted, calls, requests, responses, timersSet,
                   timersFired, timerDelay>>

\* The signal was aborted while the request was in flight: fetch (or the body
\* read) rejects with an AbortError.
FetchAborted ==
    /\ pollPc = "fetching"
    /\ SignalAborted
    /\ Reject(AbortError)
    /\ UNCHANGED <<hasSignal, aborted, calls, requests, responses, timersSet,
                   timersFired, timerDelay>>

\* A faulty variant of AfterFire: the timer is periodic (setInterval) and stays
\* armed after its callback ran.
AfterFireInterval(delay) == delay

\* setTimeout is one-shot: no timer is pending once its callback ran.
AfterFire(delay) == 0

\* The pending timer fires: its callback invokes checkStatus again.
TimerFire ==
    /\ timerDelay > 0
    /\ calls < MaxChecks
    /\ timersFired' = timersFired + 1
    /\ timerDelay' = AfterFire(timerDelay)
    /\ Invoke
    /\ UNCHANGED <<hasSignal, aborted, responses, timersSet>>

\* The owner of the AbortController calls abort(). checkStatus registers no
\* listener on the signal and never clears its timer.
Abort ==
    /\ hasSignal
    /\ ~aborted
    /\ aborted' = TRUE
    /\ UNCHANGED <<hasSignal, pollPc, calls, requests, responses, timersSet,
                   timersFired, timerDelay, unsettled, resolvedWith,
                   rejectedWith>>

NextPoll ==
    \/ CheckStatus /\ UNCHANGED <<parseVars, repeatVars, genVars>>
    \/ FetchRespond /\ UNCHANGED <<parseVars, repeatVars, genVars>>
    \/ FetchFail /\ UNCHANGED <<parseVars, repeatVars, genVars>>
    \/ FetchAborted /\ UNCHANGED <<parseVars, repeatVars, genVars>>
    \/ TimerFire /\ UNCHANGED <<parseVars, repeatVars, genVars>>
    \/ Abort /\ UNCHANGED <<parseVars, repeatVars, genVars>>

SpecPoll == InitPoll /\ [][NextPoll]_vars

\* ===================================== successive calls of parseChatHistory
\* Histories short enough to be translated several times over.
ShortHistories == UNION {[1..n -> Messages] : n \in 0..MaxShortLen}

\* Histories translated in between: an orphan tool result, a window that is
\* still open when the pass ends, a throw with a result pending, a plain turn.
OtherHistories ==
    {<<Msg("tool", Str("r1"), <<>>, "f1", Undefined)>>,
     <<Msg("ai", Str("a"), Calls(2), Undefined, Undefined),
       Msg("tool", Str("r1"), <<>>, "f1", Undefined)>>,
     <<Msg("tool", Str("r1"), <<>>, "f1", Undefined),
       Msg("human", Obj, <<>>, Undefined, Undefined)>>,
     <<Msg("human", Str("a"), <<>>, Undefined, Undefined)>>}

Outcome == [pc |-> pc, error |-> error,
            output |-> IF pc = "returned" THEN chatHistory ELSE <<>>]

\* A faulty variant of FreshLocals: the correlation state outlives the call.
StaleLocals ==
    /\ chatHistory' = <<>>
    /\ UNCHANGED <<pendingToolResults, awaitingToolCallsCount>>

\* src/index.mjs:8-10: every call declares its own three locals.
FreshLocals ==
    /\ chatHistory' = <<>>
    /\ pendingToolResults' = <<>>
    /\ awaitingToolCallsCount' = 0

\* The next call of the plan, made once the call before it is over.
ParseAgain ==
    /\ pass >= 1
    /\ pass < Len(plan)
    /\ pc \in {"returned", "threw"}
    /\ pass' = pass + 1
    /\ firstOutcome' = IF pass = 1 THEN Outcome ELSE firstOutcome
    /\ history' = plan[pass + 1]
    /\ idx' = 0
    /\ pc' = "loop"
    /\ error' = ""
    /\ FreshLocals
    /\ UNCHANGED plan

InitPlanned ==
    /\ pass = 1
    /\ firstOutcome = NoOutcome
    /\ history = plan[1]
    /\ idx = 0
    /\ chatHistory = <<>>
    /\ pendingToolResults = <<>>
    /\ awaitingToolCallsCount = 0
    /\ pc = "loop"
    /\ error = ""
    /\ PollIdle
    /\ GenerateIdle

\* The same history before and after a translation of another one.
InitRepeat ==
    /\ plan \in {<<h, o, h>> : h \in ShortHistories, o \in OtherHistories}
    /\ InitPlanned

NextRepeat ==
    \/ ParseNoContent /\ UNCHANGED <<pollVars, repeatVars, genVars>>
    \/ ParseHuman /\ UNCHANGED <<pollVars, repeatVars, genVars>>
    \/ ParseTool /\ UNCHANGED <<pollVars, repeatVars, genVars>>
    \/ ParseAi /\ UNCHANGED <<pollVars, repeatVars, genVars>>
    \/ ParseSystem /\ UNCHANGED <<pollVars, repeatVars, genVars>>
    \/ ParseDefault /\ UNCHANGED <<pollVars, repeatVars, genVars>>
    \/ EndOfPass /\ UNCHANGED <<pollVars, repeatVars, genVars>>
    \/ ParseAgain /\ UNCHANGED <<pollVars, genVars>>

SpecRepeat == InitRepeat /\ [][NextRepeat]_vars

\* A message the switch sends to its default case.
IsUnknownRole(m) ==
    m.hasContent /\ m.type \notin {"human", "tool", "ai", "system"}

WithoutUnknown(h) == SelectSeq(h, LAMBDA m : ~IsUnknownRole(m))

\* A history holding a message of unknown role, then the same history with
\* those messages taken out.
InitSkip ==
    /\ plan \in {<<h, WithoutUnknown(h)>> :
                    h \in {g \in Histories :
                              \E i \in 1..Len(g) : IsUnknownRole(g[i])}}
    /\ InitPlanned

SpecSkip == InitSkip /\ [][NextRepeat]_vars

\* ================================================================ _generate
HttpError == "Yandex LLM completion error"
TypeError == "TypeError"

FINAL == "ALTERNATIVE_STATUS_FINAL"
TOOL_CALLS == "ALTERNATIVE_STATUS_TOOL_CALLS"
\* A status the switch of _createGenerationMessage has no case for.
OtherStatus == "ALTERNATIVE_STATUS_TRUNCATED_FINAL"
\* result.alternatives is empty.
NoAlternative == "none"

\* What the completion endpoint may answer: the HTTP status is a success or
\* not, the body is JSON or not, the first alternative's status, and whether
\* result.usage is there.
CompletionResponses ==
    [ok : BOOLEAN, parsable : BOOLEAN,
     status : {FINAL, TOOL_CALLS, OtherStatus, NoAlternative},
     usage : BOOLEAN]

InitGenerate ==
    /\ history \in ShortHistories
    /\ idx = 0
    /\ chatHistory = <<>>
    /\ pendingToolResults = <<>>
    /\ awaitingToolCallsCount = 0
    /\ pc = "loop"
    /\ error = ""
    /\ genPc = "translating"
    /\ completionRequests = 0
    /\ genError = ""
    /\ generations = <<>>
    /\ finishReason = ""
    /\ PollIdle
    /\ RepeatIdle

\* A faulty variant of TranslationDone: the request goes out however the
\* translation ended.
TranslationEnded == pc \in {"returned", "threw"}

\* src/index.mjs:290-292: params is complete, messages included, before
\* completion is called.
TranslationDone == pc = "returned"

\* src/index.mjs:234-269
CreateGenerationMessage(status) ==
    IF status = FINAL THEN <<"text">>
    ELSE IF status = TOOL_CALLS THEN <<"tool_calls">>
    ELSE <<>>

\* A faulty variant of FinishReason: any wire entry will do.
FinishReasonOfAnyEntry(messages) ==
    IF \E i \in 1..Len(messages) : "role" \in DOMAIN messages[i]
      THEN "tool_calls"
      ELSE Undefined

\* src/index.mjs:300
FinishReason(messages) ==
    IF \E i \in 1..Len(messages) : "toolResultList" \in DOMAIN messages[i]
      THEN "tool_calls"
      ELSE Undefined

GenerateReject(reason) ==
    /\ genPc' = "rejected"
    /\ genError' = reason
    /\ UNCHANGED <<generations, finishReason>>

\* parseChatHistory threw while params was being built: the async function
\* rejects with that error.
TranslationThrows ==
    /\ genPc = "translating"
    /\ pc = "threw"
    /\ GenerateReject(error)
    /\ UNCHANGED completionRequests

\* completion: the POST goes out.
CompletionSend ==
    /\ genPc = "translating"
    /\ TranslationDone
    /\ completionRequests' = completionRequests + 1
    /\ genPc' = "requesting"
    /\ UNCHANGED <<genError, generations, finishReason>>

\* fetch rejects: no response at all.
CompletionFail ==
    /\ genPc = "requesting"
    /\ GenerateReject(NetworkError)
    /\ UNCHANGED completionRequests

\* A response arrives and the rest of _generate runs.
CompletionRespond ==
    /\ genPc = "requesting"
    /\ \E r \in CompletionResponses :
         IF ~r.ok THEN GenerateReject(HttpError)
         ELSE IF ~r.parsable THEN GenerateReject(SyntaxError)
         ELSE IF r.status = NoAlternative \/ ~r.usage
           THEN GenerateReject(TypeError)
         ELSE /\ genPc' = "fulfilled"
              /\ generations' = CreateGenerationMessage(r.status)
              /\ finishReason' = FinishReason(chatHistory)
              /\ UNCHANGED genError
    /\ UNCHANGED completionRequests

NextGenerate ==
    \/ ParseNoContent /\ UNCHANGED <<pollVars, repeatVars, genVars>>
    \/ ParseHuman /\ UNCHANGED <<pollVars, repeatVars, genVars>>
    \/ ParseTool /\ UNCHANGED <<pollVars, repeatVars, genVars>>
    \/ ParseAi /\ UNCHANGED <<pollVars, repeatVars, genVars>>
    \/ ParseSystem /\ UNCHANGED <<pollVars, repeatVars, genVars>>
    \/ ParseDefault /\ UNCHANGED <<pollVars, repeatVars, genVars>>
    \/ EndOfPass /\ UNCHANGED <<pollVars, repeatVars, genVars>>
    \/ TranslationThrows /\ UNCHANGED <<parseVars, pollVars, repeatVars>>
    \/ CompletionSend /\ UNCHANGED <<parseVars, pollVars, repeatVars>>
    \/ CompletionFail /\ UNCHANGED <<parseVars, pollVars, repeatVars>>
    \/ CompletionRespond /\ UNCHANGED <<parseVars, pollVars, repeatVars>>

SpecGenerate == InitGenerate /\ [][NextGenerate]_vars

\* ================================================= properties of the parse
Finished == pc \in {"returned", "threw"}

IsKnownRole(m) == m.hasContent /\ m.type \in {"human", "system", "ai", "tool"}
IsAiWithCalls(m) == m.hasContent /\ m.type = "ai" /\ Len(m.tool_calls) > 0
IsTool(m) == m.hasContent /\ m.type = "tool"

\* Content that is a plain string or a sequence of text parts.
TextRepresentable(content) ==
    \/ content.kind = "string"
    \/ /\ content.kind = "array"
       /\ \A i \in 1..Len(content.parts) : content.parts[i].type = "text"

\* No message of h has content the translation refuses.
ContentSupported(h) ==
    \A i \in 1..Len(h) :
        /\ h[i].hasContent /\ h[i].type \in {"human", "system"}
              => TextRepresentable(h[i].content)
        /\ IsTool(h[i]) => h[i].content.kind = "string"

\* The ai message at j opens a window that is answered at once and exactly:
\* its k tool calls are followed immediately by exactly k tool messages.
WindowAt(h, j) ==
    LET k == Len(h[j].tool_calls) IN
    /\ IsAiWithCalls(h[j])
    /\ j + k <= Len(h)
    /\ \A i \in (j + 1)..(j + k) : IsTool(h[i])
    /\ j + k < Len(h) => ~IsTool(h[j + k + 1])

\* A well-formed history: supported content, every ai message with tool calls
\* opens an exactly answered window, every tool message lies in such a window.
WellFormed(h) ==
    /\ ContentSupported(h)
    /\ \A j \in 1..Len(h) : IsAiWithCalls(h[j]) => WindowAt(h, j)
    /\ \A i \in 1..Len(h) : IsTool(h[i]) =>
          \E j \in 1..(i - 1) : WindowAt(h, j) /\ i <= j + Len(h[j].tool_calls)

\* Wire entries the message at i of a well-formed history stands for: a text
\* entry per part, one entry per ai message, one entry per batch of results.
EntryCount(h, i) ==
    IF ~h[i].hasContent THEN 0
    ELSE IF h[i].type \in {"human", "system"}
    THEN (IF h[i].content.kind = "string" THEN 1 ELSE Len(h[i].content.parts))
    ELSE IF h[i].type = "ai" THEN 1
    ELSE IF h[i].type = "tool"
    THEN (IF i = Len(h) \/ ~IsTool(h[i + 1]) THEN 1 ELSE 0)
    ELSE 0

RECURSIVE EntriesBefore(_, _)
EntriesBefore(h, j) ==
    IF j <= 1 THEN 0 ELSE EntriesBefore(h, j - 1) + EntryCount(h, j - 1)

NumEntriesWith(key) ==
    Cardinality({i \in 1..Len(chatHistory) : key \in DOMAIN chatHistory[i]})

\* C1: a well-formed history in which ai messages with k >= 1 tool calls are
\* followed immediately by exactly k tool messages is translated successfully;
\* for each such window the output holds one assistant entry whose toolCallList
\* has the k calls in message order, directly followed by one assistant entry
\* whose toolResultList has the k results in arrival order; the output holds no
\* other toolCallList or toolResultList entry, and nothing is left pending.
C1_WindowTranslated ==
    (Finished /\ WellFormed(history)) =>
        /\ pc = "returned"
        /\ pendingToolResults = <<>>
        /\ awaitingToolCallsCount = 0
        /\ \A j \in 1..Len(history) : IsAiWithCalls(history[j]) =>
              LET k == Len(history[j].tool_calls)
                  p == EntriesBefore(history, j) + 1
              IN  /\ p + 1 <= Len(chatHistory)
                  /\ chatHistory[p] =
                        [role |-> "assistant",
                         toolCallList |-> [toolCalls |-> [i \in 1..k |->
                            [functionCall |->
                                [name |-> history[j].tool_calls[i].name,
                                 arguments |-> history[j].tool_calls[i].args]]]]]
                  /\ chatHistory[p + 1] =
                        [role |-> "assistant",
                         toolResultList |-> [toolResults |-> [i \in 1..k |->
                            [functionResult |->
                                [name |-> IF history[j + i].kwname # Undefined
                                          THEN history[j + i].kwname
                                          ELSE history[j + i].name,
                                 content |-> history[j + i].content.text]]]]]
        /\ NumEntriesWith("toolCallList") =
              Cardinality({j \in 1..Len(history) : IsAiWithCalls(history[j])})
        /\ NumEntriesWith("toolResultList") =
              Cardinality({j \in 1..Len(history) : IsAiWithCalls(history[j])})

\* A pass over a well-formed history with a window of two calls and two
\* distinct results has returned.
C1_Witness ==
    /\ pc = "returned"
    /\ WellFormed(history)
    /\ \E j \in 1..Len(history) :
          /\ IsAiWithCalls(history[j])
          /\ Len(history[j].tool_calls) >= 2
          /\ history[j + 1] # history[j + 2]
    /\ NumEntriesWith("toolResultList") = 1

\* C2: when the last ai message with tool calls has k calls and fewer than k
\* tool messages follow it before the history ends, the pass throws the
\* mismatch error (stated for histories whose content is supported, so that
\* no other error is in play).
C2_FewerResultsThrowMismatch ==
    (/\ Finished
     /\ ContentSupported(history)
     /\ \E j \in 1..Len(history) :
           /\ IsAiWithCalls(history[j])
           /\ \A i \in (j + 1)..Len(history) : ~IsAiWithCalls(history[i])
           /\ Cardinality({i \in (j + 1)..Len(history) : IsTool(history[i])})
                 < Len(history[j].tool_calls))
    => (pc = "threw" /\ error = MismatchError)

\* C3: a tool message processed while awaitingToolCallsCount is 0 makes the
\* pass throw the mismatch error. awaitingToolCallsCount is 0 until the first
\* ai message with tool calls is processed, so a tool message that precedes
\* every such ai message is processed while it is 0 (stated for histories
\* whose content is supported).
C3_OrphanToolResultFails ==
    (/\ Finished
     /\ ContentSupported(history)
     /\ \E i \in 1..Len(history) :
           /\ IsTool(history[i])
           /\ \A j \in 1..(i - 1) : ~IsAiWithCalls(history[j]))
    => (pc = "threw" /\ error = MismatchError)

\* C4: an ai message with tool calls that is processed while the previous
\* window is unsatisfied (awaitingToolCallsCount > 0 or pendingToolResults
\* non-empty) throws the mismatch error at that message.
C4_UnsatisfiedWindowThrowsAtOnce ==
    [][(/\ InLoop
        /\ IsAiWithCalls(history[idx + 1])
        /\ (awaitingToolCallsCount > 0 \/ Len(pendingToolResults) > 0))
       => (pc' = "threw" /\ error' = MismatchError)]_vars

\* Payloads an entry carries: the keys among text, toolCallList and
\* toolResultList that are present with a defined value.
NumPayloads(e) ==
    Cardinality({key \in DOMAIN e \cap {"text", "toolCallList", "toolResultList"} :
                    key = "text" => e.text # Undefined})

\* C5: every wire entry emitted carries exactly one of the payloads text,
\* toolCallList, toolResultList.
C5_ExactlyOnePayload ==
    \A i \in 1..Len(chatHistory) : NumPayloads(chatHistory[i]) = 1

\* C6: processing a message of a known role whose content is neither a plain
\* string nor a sequence of text parts throws the unsupported-content error.
C6_UnsupportedContentThrows ==
    [][(/\ InLoop
        /\ IsKnownRole(history[idx + 1])
        /\ ~TextRepresentable(history[idx + 1].content))
       => (pc' = "threw" /\ error' = NonStringError)]_vars

\* C7: processing a human (system) message whose content is a sequence of m
\* text parts appends exactly m entries of role user (system), the i-th with
\* the i-th part's text; a plain string content appends exactly one entry.
C7_TextPartsFanOut ==
    [][(/\ InLoop
        /\ history[idx + 1].hasContent
        /\ history[idx + 1].type \in {"human", "system"}
        /\ TextRepresentable(history[idx + 1].content))
       => LET message == history[idx + 1]
              role == IF message.type = "human" THEN "user" ELSE "system"
              m == IF message.content.kind = "string"
                   THEN 1 ELSE Len(message.content.parts)
              n == Len(chatHistory)
          IN  /\ Len(chatHistory') = n + m
              /\ \A i \in 1..n : chatHistory'[i] = chatHistory[i]
              /\ \A i \in 1..m : chatHistory'[n + i] =
                    [role |-> role,
                     text |-> IF message.content.kind = "string"
                              THEN message.content.text
                              ELSE message.content.parts[i].text]]_vars

\* A human message with two text parts has just been processed, after an
\* earlier entry: the output ends with its two user entries, in part order.
C7_Witness ==
    /\ pc = "loop"
    /\ idx >= 2
    /\ history[idx].hasContent
    /\ history[idx].type = "human"
    /\ history[idx].content.kind = "array"
    /\ Len(history[idx].content.parts) = 2
    /\ Len(chatHistory) >= 3
    /\ chatHistory[Len(chatHistory) - 1] = [role |-> "user", text |-> "a"]
    /\ chatHistory[Len(chatHistory)] = [role |-> "user", text |-> "b"]

\* ================================================== properties of the poll
\* C8: when the poll has resolved, the status source reported done for the
\* first time on its N-th answer, the poll resolved with exactly that answer,
\* exactly N requests were sent by N invocations, N - 1 timers of TIMEOUT were
\* set and all of them fired before the check that followed, and none is
\* pending; in every state a done answer is the last one asked for, and a
\* check beyond the first is sent only after a timer fired.
C8_ResolvesWithNthResponse ==
    /\ requests <= timersFired + 1
    /\ timerDelay \in {0, TIMEOUT}
    /\ pollPc = "waiting" => (timerDelay = TIMEOUT /\ timersSet = timersFired + 1)
    /\ \A i \in 1..Len(responses) :
          (responses[i].parsable /\ responses[i].done)
             => (i = Len(responses) /\ pollPc = "resolved")
    /\ pollPc = "resolved" =>
          LET N == Len(responses) IN
          /\ N >= 1
          /\ responses[N].done
          /\ \A i \in 1..(N - 1) : ~responses[i].done
          /\ resolvedWith = <<responses[N]>>
          /\ rejectedWith = ""
          /\ requests = N
          /\ calls = N
          /\ timersSet = N - 1
          /\ timersFired = N - 1
          /\ timerDelay = 0
          /\ unsettled = 0

\* The poll has resolved on the third check, after two answers that were not
\* done.
C8_Witness ==
    /\ pollPc = "resolved"
    /\ Len(responses) = 3
    /\ resolvedWith = <<responses[3]>>
    /\ ~aborted

\* C9: once the signal is aborted while the first status check is in flight,
\* the only thing the poll does is reject with the AbortError, sending no
\* request and setting no timer; and a rejected poll stays rejected, sends no
\* request, sets no timer and does not resolve.
C9_AbortInFlightRejects ==
    [][/\ (hasSignal /\ aborted /\ pollPc = "fetching" /\ calls = 1)
            => /\ pollPc' = "rejected"
               /\ rejectedWith' = AbortError
               /\ resolvedWith' = <<>>
               /\ requests' = requests
               /\ timersSet' = timersSet
       /\ pollPc = "rejected"
            => /\ pollPc' = "rejected"
               /\ rejectedWith' = rejectedWith
               /\ resolvedWith' = <<>>
               /\ requests' = requests
               /\ calls' = calls
               /\ timersSet' = timersSet
               /\ timerDelay' = 0]_vars

\* The first check was aborted in flight and the poll has rejected with the
\* AbortError: one request was sent, no answer came, no timer was set.
C9_Witness ==
    /\ pollPc = "rejected"
    /\ rejectedWith = AbortError
    /\ hasSignal /\ aborted
    /\ calls = 1
    /\ requests = 1
    /\ responses = <<>>
    /\ timersSet = 0

\* C10: aborting the signal while the poll waits for the next interval rejects
\* the poll with the AbortError at once and leaves no timer pending.
C10_AbortDuringWaitRejects ==
    [][(pollPc = "waiting" /\ hasSignal /\ ~aborted /\ aborted')
       => (pollPc' = "rejected" /\ rejectedWith' = AbortError /\ timerDelay' = 0)]_vars

\* C11: the poll resolves only with an answer whose done field is true, the
\* one just received; and once the signal is aborted while the poll is not
\* resolved, the poll never resolves.
C11_ResolvesOnlyWhenDone ==
    [][/\ pollPc' = "resolved"
            => /\ Len(responses') >= 1
               /\ resolvedWith' = <<responses'[Len(responses')]>>
               /\ resolvedWith'[1].done
       /\ (hasSignal /\ aborted /\ pollPc # "resolved")
            => (pollPc' # "resolved" /\ resolvedWith' = <<>>)]_vars

\* The signal was aborted after an answer that was not done, and the poll has
\* rejected with the AbortError without resolving.
C11_Witness ==
    /\ pollPc = "rejected"
    /\ rejectedWith = AbortError
    /\ hasSignal /\ aborted
    /\ Len(responses) >= 1
    /\ ~responses[Len(responses)].done
    /\ resolvedWith = <<>>

\* C12: a status check answered with a non-success HTTP status rejects the
\* poll: such an answer is the last one asked for and the poll is rejected.
C12_NonSuccessStatusRejects ==
    \A i \in 1..Len(responses) :
        ~responses[i].ok => (i = Len(responses) /\ pollPc = "rejected")

\* A status check fails in this step: the fetch rejects, or the answer has a
\* non-success status or a body that is no JSON.
CheckFails ==
    /\ pollPc = "fetching"
    /\ \/ responses' = responses /\ pollPc' # "fetching"
       \/ /\ Len(responses') = Len(responses) + 1
          /\ LET r == responses'[Len(responses')] IN ~r.ok \/ ~r.parsable

\* C13: a failed status check is propagated and not retried: the step in
\* which a check fails rejects the poll and sets no timer, and a rejected
\* poll sends no request and has no timer pending.
C13_FailedCheckRejects ==
    [][/\ CheckFails
            => /\ pollPc' = "rejected"
               /\ rejectedWith' # ""
               /\ timersSet' = timersSet
               /\ timerDelay' = 0
       /\ pollPc = "rejected"
            => (requests' = requests /\ timerDelay' = 0)]_vars

\* Answers so far that were not done and led to a new wait.
NotDoneAnswers ==
    Cardinality({i \in 1..Len(responses) :
                    responses[i].parsable /\ ~responses[i].done})

\* C18: status checks are strictly sequential: every request but the last has
\* been answered, a request beyond the first is sent only after a timer
\* fired, a timer is set only after an answer that was not done, at most one
\* timer is pending, and none is pending while a request is in flight.
C18_ChecksSequential ==
    /\ requests <= Len(responses) + 1
    /\ requests <= timersFired + 1
    /\ timersSet <= NotDoneAnswers
    /\ timersFired <= timersSet
    /\ timersSet <= timersFired + 1
    /\ (timerDelay > 0) <=> (timersSet = timersFired + 1)
    /\ pollPc = "fetching" => (requests = Len(responses) + 1 /\ timerDelay = 0)
    /\ pollPc = "waiting" => requests = Len(responses)

\* The third check is in flight: two answers were received, two timers were
\* set and fired.
C18_Witness ==
    /\ pollPc = "fetching"
    /\ requests = 3
    /\ Len(responses) = 2
    /\ timersSet = 2
    /\ timersFired = 2
    /\ timerDelay = 0

\* C19: while the poll is pending, the number of unsettled promises it holds
\* is not larger than after the first check, which is one.
C19_UnsettledBounded ==
    unsettled <= 1

\* C14: in _generate no completion request is ever sent for a history that
\* parseChatHistory rejects: a request implies the translation returned, and
\* once _generate is over for a rejected history it has rejected with the
\* error of the translation.
C14_NoRequestForRejectedHistory ==
    /\ completionRequests > 0 => pc = "returned"
    /\ pc = "threw" =>
         /\ completionRequests = 0
         /\ genPc \in {"translating", "rejected"}
         /\ genPc = "rejected" => genError = error

\* A tool-call/tool-result mismatch has reached the caller of _generate and
\* nothing was sent.
C14_Witness ==
    /\ genPc = "rejected"
    /\ pc = "threw"
    /\ error = MismatchError
    /\ genError = MismatchError
    /\ completionRequests = 0

\* C15 as stated: a fulfilled _generate reports the finish_reason "tool-calls"
\* if and only if the translated history holds a toolResultList entry, and
\* reports none otherwise.
C15_FinishReasonHyphen ==
    genPc = "fulfilled" =>
        finishReason = IF NumEntriesWith("toolResultList") >= 1
                         THEN "tool-calls"
                         ELSE Undefined

\* C15 amended: a fulfilled _generate reports the finish_reason "tool_calls"
\* if and only if the translated history holds a toolResultList entry,
\* whatever generation the status of the alternative gave; otherwise the
\* finish_reason is undefined.
C15_FinishReasonFromHistory ==
    genPc = "fulfilled" =>
        /\ pc = "returned"
        /\ finishReason = IF NumEntriesWith("toolResultList") >= 1
                            THEN "tool_calls"
                            ELSE Undefined

\* The alternative is FINAL, and the history holds a flushed batch of results.
C15_Witness ==
    /\ genPc = "fulfilled"
    /\ generations = <<"text">>
    /\ NumEntriesWith("toolResultList") = 1
    /\ NumEntriesWith("toolCallList") = 1
    /\ finishReason = "tool_calls"

\* C16: a history translated again after a translation of another history
\* gives what it gave the first time, output or error, and the history handed
\* to a call is the one its caller holds, unmodified.
C16_SameOutcomeEachCall ==
    /\ pass >= 1 => history = plan[pass]
    /\ (pass = 3 /\ Finished) => Outcome = firstOutcome

\* A well-formed history with a tool window is translated a second time after
\* a call that threw with a tool result pending.
C16_Witness ==
    /\ pass = 3
    /\ pc = "returned"
    /\ WellFormed(history)
    /\ NumEntriesWith("toolResultList") = 1
    /\ firstOutcome.output = chatHistory
    /\ Len(plan[2]) = 2
    /\ plan[2][1].type = "tool"
    /\ plan[2][2].type = "human"

\* C17: at every step of a pass the pending tool results are no more than
\* the tool calls awaited.
C17_PendingWithinAwaiting ==
    Len(pendingToolResults) <= awaitingToolCallsCount

\* C20: a message of unknown role appends no wire entry, raises no error and
\* leaves awaitingToolCallsCount and pendingToolResults as they were; the
\* history without its messages of unknown role has the same outcome.
C20_UnknownRoleSkipped ==
    [][/\ (InLoop /\ IsUnknownRole(history[idx + 1])) =>
            /\ idx' = idx + 1
            /\ chatHistory' = chatHistory
            /\ pc' = "loop"
            /\ error' = ""
            /\ awaitingToolCallsCount' = awaitingToolCallsCount
            /\ pendingToolResults' = pendingToolResults
       /\ (pass' = 2 /\ Finished') => Outcome' = firstOutcome']_vars

\* A message of unknown role stood inside a tool window, and the history
\* without it has been translated too.
C20_Witness ==
    /\ pass = 2
    /\ pc = "returned"
    /\ Len(plan[1]) = 3
    /\ IsAiWithCalls(plan[1][1])
    /\ IsUnknownRole(plan[1][2])
    /\ IsTool(plan[1][3])
    /\ Len(plan[2]) = 2
    /\ NumEntriesWith("toolResultList") = 1
    /\ firstOutcome.output = chatHistory

\* The {name, content} of the tool messages of h, in message order.
ToolResultsOf(h) ==
    LET ts == SelectSeq(h, IsTool) IN
    [i \in 1..Len(ts) |-> [name |-> ToolName(ts[i]),
                           content |-> ts[i].content.text]]

\* The results of the toolResultList batches among the first n entries of
\* out, concatenated.
RECURSIVE EmittedResults(_, _)
EmittedResults(out, n) ==
    IF n = 0 THEN <<>>
    ELSE EmittedResults(out, n - 1) \o
         (IF "toolResultList" \in DOMAIN out[n]
            THEN LET rs == out[n].toolResultList.toolResults IN
                 [i \in 1..Len(rs) |-> rs[i].functionResult]
            ELSE <<>>)

\* C21: when parseChatHistory returns, the toolResultList batches put end to
\* end are the {name, content} of all tool messages of the history in order,
\* and every batch has as many results as the toolCallList of the nearest
\* toolCallList entry before it has calls.
C21_NoResultDroppedOrDuplicated ==
    pc = "returned" =>
        /\ EmittedResults(chatHistory, Len(chatHistory)) = ToolResultsOf(history)
        /\ \A i \in 1..Len(chatHistory) :
              "toolResultList" \in DOMAIN chatHistory[i] =>
                 \E j \in 1..(i - 1) :
                    /\ "toolCallList" \in DOMAIN chatHistory[j]
                    /\ \A k \in (j + 1)..(i - 1) :
                          "toolCallList" \notin DOMAIN chatHistory[k]
                    /\ Len(chatHistory[i].toolResultList.toolResults)
                         = Len(chatHistory[j].toolCallList.toolCalls)

\* A batch of two different results has been emitted and the pass returned.
C21_Witness ==
    /\ pc = "returned"
    /\ \E i \in 1..Len(chatHistory) :
          /\ "toolResultList" \in DOMAIN chatHistory[i]
          /\ LET rs == chatHistory[i].toolResultList.toolResults IN
                /\ Len(rs) = 2
                /\ rs[1].functionResult # rs[2].functionResult
    /\ Len(ToolResultsOf(history)) = 2

====
